---- MODULE Spec2Model ----
(***************************************************************************)
(* Model of the OBRA office-furniture catalog: the localStorage-backed     *)
(* store (src/services/db.ts), the seed catalog and markup rule            *)
(* (src/services/initialData.ts) and the admin dashboard handlers          *)
(* (src/pages/Admin/Dashboard.tsx).                                        *)
(***************************************************************************)
EXTENDS Integers, Sequences, FiniteSets, TLC

VARIABLES
    lsProducts,      \* localStorage slot 'obra_products'
    lsQuotations,    \* localStorage slot 'obra_quotations'
    quotaExceeded,   \* environment: the next localStorage.setItem throws QuotaExceededError
    thrown,          \* what the last handler / db call threw to its caller
    products,        \* AdminDashboard state `products`
    quotes,          \* AdminDashboard state `quotes`
    selectedIds,     \* AdminDashboard state `selectedIds`
    editingProduct,  \* AdminDashboard state `editingProduct` (NULL or Some(draft))
    editingQuote,    \* AdminDashboard state `editingQuote` (NULL or Some(draft))
    aiCat,           \* in-flight handleAiBulkCategorize call: the `products` its closure captured
    initLog,         \* one entry per load of db.ts: "ok", or "logged" when initDB threw and was caught
    productSearch,   \* AdminDashboard state `productSearch`
    quoteSearch,     \* AdminDashboard state `quoteSearch`
    catalogProducts, \* Catalog state `products`
    searchTerm,      \* Catalog state `searchTerm` / `searchQuery`
    selectedCategory, \* Catalog state `selectedCategory`
    editorAsync,     \* in-flight editor calls (file upload, AI description, AI image) with what their closures captured
    catalogOptions,  \* AdminDashboard state `catalogOptions`
    pdfRows          \* the products behind the table rows of the last generated catalog PDF, in row order

vars == <<lsProducts, lsQuotations, quotaExceeded, thrown, products, quotes,
          selectedIds, editingProduct, editingQuote, aiCat, initLog,
          productSearch, quoteSearch, catalogProducts, searchTerm, selectedCategory,
          editorAsync, catalogOptions, pdfRows>>

storeVars == <<lsProducts, lsQuotations>>
productUi == <<products, selectedIds, editingProduct, aiCat>>
quoteUi == <<quotes, editingQuote>>
searchUi == <<productSearch, quoteSearch>>
catalogUi == <<catalogProducts, searchTerm, selectedCategory>>
viewVars == <<initLog, searchUi, catalogUi>>
jobVars == <<editorAsync, catalogOptions, pdfRows>>

-----------------------------------------------------------------------------
(* Bounds of the model *)

NumSeeds == 1          \* how many records of INITIAL_PRODUCTS are seeded (38 in the source)
MaxNewProducts == 1    \* how many products "New Product" creates in one run
MaxQuotes == 1         \* how many quotations the checkout flow submits in one run
MaxCost == 1100        \* largest cost the pricing rules are applied to
MaxSuggestions == 1    \* longest suggestion array the AI call returns
MaxStoreAdds == 2      \* how many fresh records a caller adds to each collection
MaxLoads == 2          \* how many times db.ts is loaded (page loads) in one run
MaxFilterItems == 2    \* longest product list and quotation list that is searched
MaxExportItems == 3    \* longest product list a catalog PDF is generated from
MaxFiles == 2          \* longest batch of files picked in one upload
MaxDraftImages == 2    \* images of a draft when an upload or an AI image is requested
MaxGalleryUrls == 4    \* how many distinct image URLs are entered in the gallery

-----------------------------------------------------------------------------
(* Optional values: null is the empty sequence, a value is a singleton *)

NULL == <<>>
Some(x) == <<x>>
Val(o) == o[1]

\* no editor call is in flight
NoEditorCalls == [upload |-> NULL, enhance |-> NULL, image |-> NULL, isAiProcessing |-> FALSE]

Max(a, b) == IF a >= b THEN a ELSE b
Abs(a) == IF a >= 0 THEN a ELSE 0 - a

Range(s) == {s[i] : i \in 1..Len(s)}

Ids(coll) == {coll[i].id : i \in 1..Len(coll)}

-----------------------------------------------------------------------------
(* Text: strings are compared character by character *)

\* the characters of each string the model uses
Chars(s) ==
    CASE s = "" -> <<>>
      [] s = "All" -> <<"A", "l", "l">>
      [] s = "http" -> <<"h", "t", "t", "p">>
      [] s = "944EOT NKT-031 1.6M" -> <<"9", "4", "4", "E", "O", "T", " ", "N", "K", "T", "-", "0", "3", "1", " ", "1", ".", "6", "M">>
      [] s = "Executive Glass Top Table" -> <<"E", "x", "e", "c", "u", "t", "i", "v", "e", " ", "G", "l", "a", "s", "s", " ", "T", "o", "p", " ", "T", "a", "b", "l", "e">>
      [] s = "Executive Table" -> <<"E", "x", "e", "c", "u", "t", "i", "v", "e", " ", "T", "a", "b", "l", "e">>
      [] s = "430FJNS3Y" -> <<"4", "3", "0", "F", "J", "N", "S", "3", "Y">>
      [] s = "Executive Mesh Chair with Footrest" -> <<"E", "x", "e", "c", "u", "t", "i", "v", "e", " ", "M", "e", "s", "h", " ", "C", "h", "a", "i", "r", " ", "w", "i", "t", "h", " ", "F", "o", "o", "t", "r", "e", "s", "t">>
      [] s = "Office Chair" -> <<"O", "f", "f", "i", "c", "e", " ", "C", "h", "a", "i", "r">>
      [] s = "TERRY" -> <<"T", "E", "R", "R", "Y">>
      [] s = "Home Furniture - Dining Set" -> <<"H", "o", "m", "e", " ", "F", "u", "r", "n", "i", "t", "u", "r", "e", " ", "-", " ", "D", "i", "n", "i", "n", "g", " ", "S", "e", "t">>
      [] s = "Dining Furniture" -> <<"D", "i", "n", "i", "n", "g", " ", "F", "u", "r", "n", "i", "t", "u", "r", "e">>
      [] s = "Other" -> <<"O", "t", "h", "e", "r">>
      [] s = "Oak Desk" -> <<"O", "a", "k", " ", "D", "e", "s", "k">>
      [] s = "OD-1" -> <<"O", "D", "-", "1">>
      [] s = "Mesh Seat" -> <<"M", "e", "s", "h", " ", "S", "e", "a", "t">>
      [] s = "ch2" -> <<"c", "h", "2">>
      [] s = "Sofa" -> <<"S", "o", "f", "a">>
      [] s = "SF-9" -> <<"S", "F", "-", "9">>
      [] s = "Desk" -> <<"D", "e", "s", "k">>
      [] s = "D-1" -> <<"D", "-", "1">>
      [] s = "desk" -> <<"d", "e", "s", "k">>
      [] s = "CHAIR" -> <<"C", "H", "A", "I", "R">>
      [] s = "o" -> <<"o">>
      [] s = "Od-" -> <<"O", "d", "-">>
      [] s = "zz" -> <<"z", "z">>
      [] s = "q1" -> <<"q", "1">>
      [] s = "q2" -> <<"q", "2">>
      [] s = "q3" -> <<"q", "3">>
      [] s = "Ana" -> <<"A", "n", "a">>
      [] s = "Ben Santos" -> <<"B", "e", "n", " ", "S", "a", "n", "t", "o", "s">>
      [] s = "Draft" -> <<"D", "r", "a", "f", "t">>
      [] s = "Sent" -> <<"S", "e", "n", "t">>
      [] s = "Approved" -> <<"A", "p", "p", "r", "o", "v", "e", "d">>
      [] s = "Rejected" -> <<"R", "e", "j", "e", "c", "t", "e", "d">>
      [] s = "ana" -> <<"a", "n", "a">>
      [] s = "SENT" -> <<"S", "E", "N", "T">>
      [] s = "Q1" -> <<"Q", "1">>
      [] s = "https://cdn.example/a.jpg" -> <<"h", "t", "t", "p", "s", ":", "/", "/", "c", "d", "n", ".", "e", "x", "a", "m", "p", "l", "e", "/", "a", ".", "j", "p", "g">>
      [] s = "https://cdn.example/b.jpg" -> <<"h", "t", "t", "p", "s", ":", "/", "/", "c", "d", "n", ".", "e", "x", "a", "m", "p", "l", "e", "/", "b", ".", "j", "p", "g">>
      [] s = "https://cdn.example/c.jpg" -> <<"h", "t", "t", "p", "s", ":", "/", "/", "c", "d", "n", ".", "e", "x", "a", "m", "p", "l", "e", "/", "c", ".", "j", "p", "g">>
      [] s = "https://cdn.example/d.jpg" -> <<"h", "t", "t", "p", "s", ":", "/", "/", "c", "d", "n", ".", "e", "x", "a", "m", "p", "l", "e", "/", "d", ".", "j", "p", "g">>
      [] s = "https://cdn.example/e.jpg" -> <<"h", "t", "t", "p", "s", ":", "/", "/", "c", "d", "n", ".", "e", "x", "a", "m", "p", "l", "e", "/", "e", ".", "j", "p", "g">>
      [] s = "ftp://files/a.jpg" -> <<"f", "t", "p", ":", "/", "/", "f", "i", "l", "e", "s", "/", "a", ".", "j", "p", "g">>
      [] s = "A refined piece." -> <<"A", " ", "r", "e", "f", "i", "n", "e", "d", " ", "p", "i", "e", "c", "e", ".">>

\* every string of the table
Vocabulary ==
    { "", "All", "http", "944EOT NKT-031 1.6M", "Executive Glass Top Table", "Executive Table",
      "430FJNS3Y", "Executive Mesh Chair with Footrest", "Office Chair", "TERRY",
      "Home Furniture - Dining Set", "Dining Furniture", "Other", "Oak Desk", "OD-1",
      "Mesh Seat", "ch2", "Sofa", "SF-9", "Desk", "D-1", "desk", "CHAIR", "o", "Od-", "zz",
      "q1", "q2", "q3", "Ana", "Ben Santos", "Draft", "Sent", "Approved", "Rejected", "ana",
      "SENT", "Q1", "https://cdn.example/a.jpg", "https://cdn.example/b.jpg",
      "https://cdn.example/c.jpg", "https://cdn.example/d.jpg", "https://cdn.example/e.jpg",
      "ftp://files/a.jpg", "A refined piece." }

\* the string of a character sequence
fromChars(cs) == CHOOSE s \in Vocabulary : Chars(s) = cs

\* String.prototype.toLowerCase on one character
toLowerChar(c) ==
    CASE c = "A" -> "a"
      [] c = "B" -> "b"
      [] c = "C" -> "c"
      [] c = "D" -> "d"
      [] c = "E" -> "e"
      [] c = "F" -> "f"
      [] c = "G" -> "g"
      [] c = "H" -> "h"
      [] c = "I" -> "i"
      [] c = "J" -> "j"
      [] c = "K" -> "k"
      [] c = "L" -> "l"
      [] c = "M" -> "m"
      [] c = "N" -> "n"
      [] c = "O" -> "o"
      [] c = "P" -> "p"
      [] c = "Q" -> "q"
      [] c = "R" -> "r"
      [] c = "S" -> "s"
      [] c = "T" -> "t"
      [] c = "U" -> "u"
      [] c = "V" -> "v"
      [] c = "W" -> "w"
      [] c = "X" -> "x"
      [] c = "Y" -> "y"
      [] c = "Z" -> "z"
      [] OTHER -> c

\* s.toLowerCase(), as characters
toLowerCase(s) == LET cs == Chars(s) IN [i \in 1..Len(cs) |-> toLowerChar(cs[i])]

\* text.includes(sub) on characters; the empty string is found in every text
includes(text, sub) ==
    \/ sub = <<>>
    \/ \E i \in 0..(Len(text) - Len(sub)) : SubSeq(text, i + 1, i + Len(sub)) = sub

\* s.startsWith(prefix)
startsWith(s, prefix) ==
    LET cs == Chars(s)
        ps == Chars(prefix)
    IN  Len(cs) >= Len(ps) /\ SubSeq(cs, 1, Len(ps)) = ps

-----------------------------------------------------------------------------
(* Pricing: src/services/initialData.ts and the editor's price input *)

RECURSIVE Pow2Below(_, _)
\* largest power of two <= q, searched upward from p (q >= p >= 1)
Pow2Below(q, p) == IF 2 * p <= q THEN Pow2Below(q, 2 * p) ELSE p

\* Math.ceil(cost * 1.1) on IEEE-754 doubles, for an integer cost >= 0.
\* The double 1.1 is 1.1 + 0.4 * 2^-52, so cost * 1.1 is 11*cost/10 plus an
\* excess of (4/11) * q * 2^-52, q = 11*cost/10.  When 11*cost is not a
\* multiple of 10 the excess is far from an integer boundary and the result
\* is the mathematical ceiling.  When q is an integer the product rounds to
\* the double above q exactly when the excess is more than half an ulp,
\* i.e. 8*q > 11 * 2^e with 2^e <= q < 2^(e+1) (a tie rounds to even, q),
\* and Math.ceil then returns q + 1.
MutCalculateMarkupTwentyPercent(price) == (12 * price + 9) \div 10

calculateMarkup(price) ==
    LET q == (11 * price) \div 10
        r == (11 * price) % 10
    IN  IF r # 0 THEN q + 1
        ELSE IF q > 0 /\ 8 * q > 11 * Pow2Below(q, 1) THEN q + 1
        ELSE q

\* the mathematical ceil(cost * 1.10)
CeilMarkup(cost) == (11 * cost + 9) \div 10

\* Math.round(price / 1.1): the inverse rule of the specification.  10*price/11
\* is never within 1/22 of a half, so the double division cannot change the
\* rounding: round(10p/11) = floor((20p + 11) / 22).
fromSellingPrice(price) == (20 * price + 11) \div 22

-----------------------------------------------------------------------------
(* Seed catalog: src/services/initialData.ts *)

\* the description `${desc}. ${features}` is kept as the pieces of the template
createProduct(id, code, name, category, price, dim, desc, features) ==
    [ id |-> id, code |-> code, name |-> name, category |-> category,
      originalPrice |-> price, sellingPrice |-> calculateMarkup(price),
      dimensions |-> dim, description |-> <<desc, ". ", features>>,
      images |-> <<"https://images.unsplash.com/800", "https://images.unsplash.com/801">>,
      isLocked |-> TRUE, isActive |-> TRUE ]

\* records p2, p32 and p34 of INITIAL_PRODUCTS, in the order of the list
SeedCatalog ==
    << createProduct("p2", "944EOT NKT-031 1.6M", "Executive Glass Top Table",
                     "Executive Table", 28560, "Front: L160xW80xH76cm",
                     "Modern contemporary design", "Tempered glass, Stainless steel leg"),
       createProduct("p32", "430FJNS3Y", "Executive Mesh Chair with Footrest",
                     "Office Chair", 11735, "L55cm x W51xH112cm",
                     "Reclining backrest", "Foot rest"),
       createProduct("p34", "TERRY", "Home Furniture - Dining Set",
                     "Dining Furniture", 62000, "Table: L160xW90xH75cm",
                     "6-seater", "Marble top, Solid wood frame") >>

INITIAL_PRODUCTS == SubSeq(SeedCatalog, 1, IF NumSeeds <= Len(SeedCatalog) THEN NumSeeds ELSE Len(SeedCatalog))

\* values of the ProductCategory enumeration the model uses (src/types.ts)
ProductCategory == {"Executive Table", "Office Chair", "Dining Furniture", "Other"}

-----------------------------------------------------------------------------
(* The store: src/services/db.ts *)

Absent == [set |-> FALSE, value |-> <<>>]
Stored(coll) == [set |-> TRUE, value |-> coll]

\* JSON.parse(localStorage.getItem(key) || '[]')
getAll(slot) == IF slot.set THEN slot.value ELSE <<>>

\* safeSetItem: the slot after the call; a quota failure leaves the slot as it was
MutSafeSetItemPartialWrite(slot, coll, full) == Stored(coll)

safeSetItem(slot, coll, full) == IF full THEN slot ELSE Stored(coll)

\* what safeSetItem throws
safeSetItemError(full) == IF full THEN "StorageFull" ELSE "none"

\* products.push(product)
MutPushFront(coll, item) == <<item>> \o coll

push(coll, item) == Append(coll, item)

\* products.filter(p => p.id !== id)
MutFilterKeepsId(coll, id) == SelectSeq(coll, LAMBDA p : p.id = id)

filterOutId(coll, id) == SelectSeq(coll, LAMBDA p : p.id # id)

\* products.findIndex(p => p.id === id), 0 when there is none
findIndex(coll, id) ==
    IF \E i \in 1..Len(coll) : coll[i].id = id
    THEN CHOOSE i \in 1..Len(coll) : coll[i].id = id /\ \A j \in 1..(i-1) : coll[j].id # id
    ELSE 0

\* db.products.getById(id) !== undefined
MutHasIdNeverFound(slot, id) == FALSE

hasId(slot, id) == findIndex(getAll(slot), id) # 0

\* db.products.add / db.quotations.add: the slot after the call
dbAdd(slot, item, full) == safeSetItem(slot, push(getAll(slot), item), full)

\* db.products.update / db.quotations.update: the slot after the call
MutDbUpdateUpsert(slot, item, full) ==
    LET coll == getAll(slot)
        index == findIndex(coll, item.id)
    IN  IF index # 0 THEN safeSetItem(slot, [coll EXCEPT ![index] = item], full)
        ELSE safeSetItem(slot, Append(coll, item), full)

dbUpdate(slot, item, full) ==
    LET coll == getAll(slot)
        index == findIndex(coll, item.id)
    IN  IF index # 0 THEN safeSetItem(slot, [coll EXCEPT ![index] = item], full) ELSE slot

\* what update throws: it writes only when the id was found
dbUpdateError(slot, item, full) ==
    IF findIndex(getAll(slot), item.id) # 0 THEN safeSetItemError(full) ELSE "none"

\* db.products.delete / db.quotations.delete: the slot after the call
dbDelete(slot, id, full) == safeSetItem(slot, filterOutId(getAll(slot), id), full)

\* db.products.saveAll
dbSaveAll(slot, coll, full) == safeSetItem(slot, coll, full)

RECURSIVE insertByDateDesc(_, _)
\* stable insertion of q into a list sorted by date, newest first
insertByDateDesc(sorted, q) ==
    IF sorted = <<>> THEN <<q>>
    ELSE IF sorted[1].date >= q.date
         THEN <<sorted[1]>> \o insertByDateDesc(Tail(sorted), q)
         ELSE <<q>> \o sorted

RECURSIVE sortByDateDesc(_)
\* quotes.sort((a, b) => new Date(b.date) - new Date(a.date))
sortByDateDesc(coll) ==
    IF coll = <<>> THEN <<>>
    ELSE insertByDateDesc(sortByDateDesc(SubSeq(coll, 1, Len(coll) - 1)), coll[Len(coll)])

-----------------------------------------------------------------------------
(* Initial state: module load of db.ts (initDB inside try/catch) on a first *)
(* run, then the dashboard's mount effect (refreshData)                     *)

\* initDB, first `if`: the products slot after it
MutInitDBAlwaysSeeds(slot, full) == safeSetItem(slot, INITIAL_PRODUCTS, full)

initDBSeedProducts(slot, full) ==
    IF ~slot.set THEN safeSetItem(slot, INITIAL_PRODUCTS, full) ELSE slot

\* initDB, second `if`: the quotations slot after it; the statement is not
\* reached when seeding the products threw
initDBSeedQuotations(productsSlot, slot, full) ==
    IF ~productsSlot.set /\ full THEN slot
    ELSE IF ~slot.set THEN safeSetItem(slot, <<>>, full) ELSE slot

\* what initDB throws: the error of the first safeSetItem that fails
initDBError(productsSlot, slot, full) ==
    IF ~productsSlot.set \/ ~slot.set THEN safeSetItemError(full) ELSE "none"

\* try { initDB() } catch (e) { console.error(...) }: what leaves the block
MutRethrowInitError(err) == err

catchInitError(err) == "none"

\* the console line of the catch block
initLogEntry(err) == IF err = "none" THEN "ok" ELSE "logged"

\* the products slot after initDB on an empty localStorage
initDBProducts(full) == initDBSeedProducts(Absent, full)

\* the quotations slot after initDB: not reached when seeding the products threw
initDBQuotations(full) == initDBSeedQuotations(Absent, Absent, full)

Init ==
    /\ quotaExceeded \in BOOLEAN
    /\ lsProducts = initDBProducts(quotaExceeded)
    /\ lsQuotations = initDBQuotations(quotaExceeded)
    /\ thrown = catchInitError(initDBError(Absent, Absent, quotaExceeded))
    /\ products = getAll(lsProducts)
    /\ quotes = sortByDateDesc(getAll(lsQuotations))
    /\ selectedIds = {}
    /\ editingProduct = NULL
    /\ editingQuote = NULL
    /\ aiCat = NULL
    /\ initLog = <<initLogEntry(initDBError(Absent, Absent, quotaExceeded))>>
    /\ productSearch = ""
    /\ quoteSearch = ""
    /\ catalogProducts = <<>>
    /\ searchTerm = ""
    /\ selectedCategory = "All"
    /\ editorAsync = NoEditorCalls
    /\ catalogOptions = [sortBy |-> "name"]
    /\ pdfRows = <<>>

\* the browser's storage fills up or is freed (other keys, other pages)
QuotaChange ==
    /\ quotaExceeded' = ~quotaExceeded
    /\ UNCHANGED <<storeVars, thrown, productUi, quoteUi, viewVars, jobVars>>

\* a page of the site is loaded again: db.ts runs initDB inside its try/catch
\* on the slots as they are, and every component state is back to its
\* useState initial value (the dashboard is not mounted by this load)
moduleLoad ==
    /\ Len(initLog) < MaxLoads
    /\ lsProducts' = initDBSeedProducts(lsProducts, quotaExceeded)
    /\ lsQuotations' = initDBSeedQuotations(lsProducts, lsQuotations, quotaExceeded)
    /\ thrown' = catchInitError(initDBError(lsProducts, lsQuotations, quotaExceeded))
    /\ initLog' = Append(initLog, initLogEntry(initDBError(lsProducts, lsQuotations, quotaExceeded)))
    /\ products' = <<>> /\ quotes' = <<>>
    /\ selectedIds' = {} /\ editingProduct' = NULL /\ editingQuote' = NULL /\ aiCat' = NULL
    /\ productSearch' = "" /\ quoteSearch' = ""
    /\ catalogProducts' = <<>> /\ searchTerm' = "" /\ selectedCategory' = "All"
    /\ editorAsync' = NoEditorCalls
    /\ catalogOptions' = [sortBy |-> "name"]
    /\ UNCHANGED pdfRows
    /\ UNCHANGED quotaExceeded

\* refreshData(): both snapshots re-read from the slots as they are after the step
refreshData ==
    /\ products' = getAll(lsProducts')
    /\ quotes' = sortByDateDesc(getAll(lsQuotations'))

-----------------------------------------------------------------------------
(* Admin dashboard, products tab: src/pages/Admin/Dashboard.tsx *)

\* inputs the model draws for the handlers
NewIdPool == <<"n1", "n2", "n3">>
NewIds == {NewIdPool[k] : k \in 1..(IF MaxNewProducts <= 3 THEN MaxNewProducts ELSE 3)}
EditorCosts == {50}
BulkCategories == {"", "Other"}
AiSuggestedCategories == {"Other", "Bogus"}
AiSuggestedIds == {"p2", "n1", "unknown"}

SearchTerms == {"", "desk", "CHAIR", "o", "Od-", "zz"}

\* products.filter(p => name / code / category .toLowerCase().includes(search.toLowerCase()))
filterProducts(ps, search) ==
    SelectSeq(ps, LAMBDA p :
        \/ includes(toLowerCase(p.name), toLowerCase(search))
        \/ includes(toLowerCase(p.code), toLowerCase(search))
        \/ includes(toLowerCase(p.category), toLowerCase(search)))

\* the rows of the products table
filteredProducts == filterProducts(products, productSearch)

\* the product editor modal covers the table and the bulk bar
tableReachable == editingProduct = NULL /\ editingQuote = NULL

\* onChange of the "Search catalog..." box
setProductSearch(search) ==
    /\ tableReachable
    /\ productSearch' = search
    /\ thrown' = "none"
    /\ UNCHANGED <<storeVars, quotaExceeded, productUi, quoteUi, initLog, jobVars, quoteSearch, catalogUi>>

toggleSelectOne(id) ==
    /\ tableReachable
    /\ id \in Ids(filteredProducts)
    /\ selectedIds' = IF id \in selectedIds THEN selectedIds \ {id} ELSE selectedIds \cup {id}
    /\ thrown' = "none"
    /\ UNCHANGED <<storeVars, quotaExceeded, viewVars, jobVars, products, editingProduct, aiCat, quoteUi>>

toggleSelectAll(checked) ==
    /\ tableReachable
    /\ selectedIds' = IF checked THEN Ids(filteredProducts) ELSE {}
    /\ thrown' = "none"
    /\ UNCHANGED <<storeVars, quotaExceeded, viewVars, jobVars, products, editingProduct, aiCat, quoteUi>>

\* products.map(p => selectedIds.has(p.id) ? { ...p, isActive } : p)
MutBulkStatusAll(ps, ids, isActive) ==
    [i \in 1..Len(ps) |-> [ps[i] EXCEPT !.isActive = isActive]]

bulkStatusUpdated(ps, ids, isActive) ==
    [i \in 1..Len(ps) |-> IF ps[i].id \in ids THEN [ps[i] EXCEPT !.isActive = isActive] ELSE ps[i]]

\* products.map(p => selectedIds.has(p.id) ? { ...p, category } : p)
MutBulkCategoryAll(ps, ids, category) ==
    [i \in 1..Len(ps) |-> [ps[i] EXCEPT !.category = category]]

bulkCategoryUpdated(ps, ids, category) ==
    [i \in 1..Len(ps) |-> IF ps[i].id \in ids THEN [ps[i] EXCEPT !.category = category] ELSE ps[i]]

\* products.filter(p => !selectedIds.has(p.id))
bulkDeleteRemaining(ps, ids) == SelectSeq(ps, LAMBDA p : p.id \notin ids)

\* the common tail of the bulk handlers: saveAll, refreshData, clear the
\* selection; a throw from saveAll skips the rest of the handler
bulkCommit(updated) ==
    /\ UNCHANGED <<lsQuotations, quotaExceeded, viewVars, jobVars, editingProduct, editingQuote, aiCat>>
    /\ lsProducts' = dbSaveAll(lsProducts, updated, quotaExceeded)
    /\ thrown' = safeSetItemError(quotaExceeded)
    /\ IF quotaExceeded
       THEN UNCHANGED <<products, quotes, selectedIds>>
       ELSE refreshData /\ selectedIds' = {}

handleBulkStatusToggle(isActive) ==
    /\ tableReachable
    /\ selectedIds # {}
    /\ bulkCommit(bulkStatusUpdated(products, selectedIds, isActive))

handleBulkCategoryChange(category) ==
    /\ tableReachable
    /\ selectedIds # {}
    /\ IF category = ""
       THEN thrown' = "none" /\ UNCHANGED <<storeVars, quotaExceeded, viewVars, jobVars, productUi, quoteUi>>
       ELSE bulkCommit(bulkCategoryUpdated(products, selectedIds, category))

handleBulkDelete(confirmed) ==
    /\ tableReachable
    /\ selectedIds # {}
    /\ IF ~confirmed
       THEN thrown' = "none" /\ UNCHANGED <<storeVars, quotaExceeded, viewVars, jobVars, productUi, quoteUi>>
       ELSE bulkCommit(bulkDeleteRemaining(products, selectedIds))

\* first suggestion whose id is p.id, as suggestions.find(s => s.id === p.id)
findSuggestion(suggestions, id) ==
    IF \E i \in 1..Len(suggestions) : suggestions[i].id = id
    THEN Some(suggestions[CHOOSE i \in 1..Len(suggestions) :
                  suggestions[i].id = id /\ \A j \in 1..(i-1) : suggestions[j].id # id])
    ELSE NULL

\* the `updated` list of handleAiBulkCategorize
aiCategorized(ps, suggestions) ==
    [i \in 1..Len(ps) |->
        LET sug == findSuggestion(suggestions, ps[i].id)
        IN  IF sug # NULL /\ Val(sug).suggestedCategory \in ProductCategory
            THEN [ps[i] EXCEPT !.category = Val(sug).suggestedCategory]
            ELSE ps[i]]

\* what the generative-AI call can come back with: a rejection or unparseable
\* text, JSON that is not an array, or an array of suggestions
AiResponses ==
    {[kind |-> "error", items |-> <<>>], [kind |-> "notArray", items |-> <<>>]}
    \cup {[kind |-> "array", items |-> items] :
             items \in UNION {[1..n -> [id : AiSuggestedIds, suggestedCategory : AiSuggestedCategories]] :
                                 n \in 0..MaxSuggestions}}

\* handleAiBulkCategorize up to its await: the closure keeps this render's `products`
handleAiBulkCategorize ==
    /\ tableReachable
    /\ selectedIds # {}
    /\ aiCat = NULL
    /\ aiCat' = Some(products)
    /\ thrown' = "none"
    /\ UNCHANGED <<storeVars, quotaExceeded, viewVars, jobVars, products, selectedIds, editingProduct, quoteUi>>

\* handleAiBulkCategorize after its await; every throw is caught and logged
aiCategorizeSettle(resp) ==
    /\ aiCat # NULL
    /\ aiCat' = NULL
    /\ thrown' = "none"
    /\ UNCHANGED <<lsQuotations, quotaExceeded, viewVars, jobVars, editingProduct, editingQuote>>
    /\ IF resp.kind = "array"
       THEN /\ lsProducts' = dbSaveAll(lsProducts, aiCategorized(Val(aiCat), resp.items), quotaExceeded)
            /\ IF quotaExceeded
               THEN UNCHANGED <<products, quotes, selectedIds>>
               ELSE refreshData /\ selectedIds' = {}
       ELSE UNCHANGED <<lsProducts, products, quotes, selectedIds>>

handleEditClick(i) ==
    /\ tableReachable
    /\ i \in 1..Len(filteredProducts)
    /\ editingProduct' = Some(filteredProducts[i])
    /\ thrown' = "none"
    /\ UNCHANGED <<storeVars, quotaExceeded, viewVars, jobVars, products, selectedIds, aiCat, quoteUi>>

\* the draft handleAddNewProduct builds around a fresh crypto.randomUUID()
newProduct(id) ==
    [ id |-> id, code |-> "", name |-> "", category |-> "Other",
      originalPrice |-> 0, sellingPrice |-> 0,
      dimensions |-> "", description |-> <<>>, images |-> <<>>,
      isLocked |-> FALSE, isActive |-> TRUE ]

handleAddNewProduct(id) ==
    /\ tableReachable
    /\ id \in NewIds
    /\ id \notin Ids(getAll(lsProducts)) \cup Ids(products)
    /\ aiCat # NULL => id \notin Ids(Val(aiCat))
    /\ editingProduct' = Some(newProduct(id))
    /\ thrown' = "none"
    /\ UNCHANGED <<storeVars, quotaExceeded, viewVars, jobVars, products, selectedIds, aiCat, quoteUi>>

\* onChange of the "Original Price" input (disabled for a locked product)
MutOnSellingPriceChange(draft, val) ==
    [draft EXCEPT !.sellingPrice = val, !.originalPrice = fromSellingPrice(val)]

onOriginalPriceChange(draft, val) ==
    [draft EXCEPT !.originalPrice = val, !.sellingPrice = calculateMarkup(val)]

editOriginalPrice(val) ==
    /\ editingProduct # NULL
    /\ ~Val(editingProduct).isLocked
    /\ editingProduct' = Some(onOriginalPriceChange(Val(editingProduct), val))
    /\ thrown' = "none"
    /\ UNCHANGED <<storeVars, quotaExceeded, viewVars, jobVars, products, selectedIds, aiCat, quoteUi>>

\* onChange of the name, code, category and dimensions inputs, each
\* `disabled={editingProduct.isLocked}`
EditorCoreEdits == {<<"name", "Desk">>, <<"category", "Office Chair">>}

editCoreField(field, val) ==
    /\ editingProduct # NULL
    /\ ~Val(editingProduct).isLocked
    /\ field \in {"name", "code", "category", "dimensions"}
    /\ editingProduct' = Some([Val(editingProduct) EXCEPT ![field] = val])
    /\ thrown' = "none"
    /\ UNCHANGED <<storeVars, quotaExceeded, viewVars, jobVars, products, selectedIds, aiCat, quoteUi>>

\* what is typed in the "Add URL" box: the characters of a text, possibly
\* with blanks around it
typed(text, padded) ==
    IF padded THEN <<" ">> \o Chars(text) \o <<" ", " ">> ELSE Chars(text)

ImageUrlInputs ==
    {typed(t, b) :
        t \in {"", "https://cdn.example/a.jpg", "https://cdn.example/b.jpg", "ftp://files/a.jpg"},
        b \in BOOLEAN}

RECURSIVE trimStart(_)
trimStart(cs) == IF cs # <<>> /\ cs[1] = " " THEN trimStart(Tail(cs)) ELSE cs

RECURSIVE trimEnd(_)
trimEnd(cs) ==
    IF cs # <<>> /\ cs[Len(cs)] = " " THEN trimEnd(SubSeq(cs, 1, Len(cs) - 1)) ELSE cs

\* imageUrlInput.trim(), as a string
trim(input) == fromChars(trimEnd(trimStart(input)))

\* the images of the draft after handleAddImageUrl
MutImagesWithUrlNoDedupe(images, url) ==
    IF url = "" \/ ~startsWith(url, "http") THEN images ELSE Append(images, url)

imagesWithUrl(images, url) ==
    IF url = "" \/ ~startsWith(url, "http") THEN images
    ELSE IF url \in Range(images) THEN images
    ELSE Append(images, url)

\* the Add button and the Enter key of the URL box, both disabled for a locked product
handleAddImageUrl(input) ==
    /\ editingProduct # NULL
    /\ ~Val(editingProduct).isLocked
    /\ editingProduct' = Some([Val(editingProduct) EXCEPT
                                 !.images = imagesWithUrl(@, trim(input))])
    /\ thrown' = "none"
    /\ UNCHANGED <<storeVars, quotaExceeded, viewVars, jobVars, products, selectedIds, aiCat, quoteUi>>

\* next.splice(idx, 1), idx counted from 1
spliceOut(images, idx) == SubSeq(images, 1, idx - 1) \o SubSeq(images, idx + 1, Len(images))

\* the "Delete Image" button of a gallery tile, rendered only when not locked
removeImage(idx) ==
    /\ editingProduct # NULL
    /\ ~Val(editingProduct).isLocked
    /\ idx \in 1..Len(Val(editingProduct).images)
    /\ editingProduct' = Some([Val(editingProduct) EXCEPT !.images = spliceOut(@, idx)])
    /\ thrown' = "none"
    /\ UNCHANGED <<storeVars, quotaExceeded, viewVars, jobVars, products, selectedIds, aiCat, quoteUi>>

\* newImages.splice(index, 1) then newImages.unshift(selected), idx counted from 1
MutSetPrimarySwap(images, idx) ==
    [i \in 1..Len(images) |-> IF i = 1 THEN images[idx] ELSE IF i = idx THEN images[1] ELSE images[i]]

setPrimary(images, idx) == <<images[idx]>> \o spliceOut(images, idx)

\* the "Set as Thumbnail" button: rendered on every tile but the first, and
\* only when not locked
handleSetPrimary(idx) ==
    /\ editingProduct # NULL
    /\ ~Val(editingProduct).isLocked
    /\ idx \in 2..Len(Val(editingProduct).images)
    /\ editingProduct' = Some([Val(editingProduct) EXCEPT !.images = setPrimary(@, idx)])
    /\ thrown' = "none"
    /\ UNCHANGED <<storeVars, quotaExceeded, viewVars, jobVars, products, selectedIds, aiCat, quoteUi>>

\* the X and Cancel buttons of the product editor
closeProductEditor ==
    /\ editingProduct # NULL
    /\ editingProduct' = NULL
    /\ thrown' = "none"
    /\ UNCHANGED <<storeVars, quotaExceeded, viewVars, jobVars, products, selectedIds, aiCat, quoteUi>>

handleSaveProduct ==
    /\ editingProduct # NULL
    /\ UNCHANGED <<lsQuotations, quotaExceeded, viewVars, jobVars, selectedIds, editingQuote, aiCat>>
    /\ LET draft == Val(editingProduct)
           exists == hasId(lsProducts, draft.id)
       IN  /\ lsProducts' = IF exists THEN dbUpdate(lsProducts, draft, quotaExceeded)
                                      ELSE dbAdd(lsProducts, draft, quotaExceeded)
           /\ thrown' = safeSetItemError(quotaExceeded)
    /\ IF quotaExceeded
       THEN UNCHANGED <<products, quotes, editingProduct>>
       ELSE refreshData /\ editingProduct' = NULL

-----------------------------------------------------------------------------
(* Asynchronous calls of the product editor: each handler runs up to its   *)
(* await with the editingProduct of the render it was created in, and the  *)
(* rest runs when the promise settles. One call of each kind is followed   *)
(* at a time, an upload on its own, and a draft holds MaxDraftImages       *)
(* images before a call that adds one is started.                          *)

\* the files the picker can hand over: a photo, a PDF (the accept attribute
\* is a hint, not a check), a photo above 5 MB, and a file the FileReader
\* fails on
UploadFiles ==
    { [data |-> "data:image/png;base64,AAAA", isImage |-> TRUE, oversized |-> FALSE, readable |-> TRUE],
      [data |-> "data:application/pdf;base64,BBBB", isImage |-> FALSE, oversized |-> FALSE, readable |-> TRUE],
      [data |-> "data:image/jpeg;base64,CCCC", isImage |-> TRUE, oversized |-> TRUE, readable |-> TRUE],
      [data |-> "", isImage |-> TRUE, oversized |-> FALSE, readable |-> FALSE] }

UploadBatches == UNION {[1..n -> UploadFiles] : n \in 1..MaxFiles}

\* r.result of each file, in order
dataUrls(files) == [i \in 1..Len(files) |-> files[i].data]

\* Promise.all(readers): rejects as soon as one reader rejects
readersAll(files) ==
    IF \A i \in 1..Len(files) : files[i].readable THEN Some(dataUrls(files)) ELSE NULL

\* handleImageUpload up to its await; the drop zone ignores clicks on a locked product
handleImageUpload(files) ==
    /\ editingProduct # NULL
    /\ ~Val(editingProduct).isLocked
    /\ Len(files) > 0
    /\ editorAsync = NoEditorCalls
    /\ Len(Val(editingProduct).images) + Len(files) <= MaxDraftImages
    /\ editorAsync' = [editorAsync EXCEPT !.upload = Some([draft |-> Val(editingProduct), files |-> files])]
    /\ thrown' = "none"
    /\ UNCHANGED <<storeVars, quotaExceeded, viewVars, catalogOptions, pdfRows, productUi, quoteUi>>

\* handleImageUpload after its await: the images are appended to the
\* editingProduct the closure holds; a rejection is caught and logged
imageUploadSettle ==
    /\ editorAsync.upload # NULL
    /\ LET call == Val(editorAsync.upload)
           newImages == readersAll(call.files)
       IN  editingProduct' =
               IF newImages # NULL
               THEN Some([call.draft EXCEPT !.images = @ \o Val(newImages)])
               ELSE editingProduct
    /\ editorAsync' = [editorAsync EXCEPT !.upload = NULL]
    /\ thrown' = "none"
    /\ UNCHANGED <<storeVars, quotaExceeded, viewVars, catalogOptions, pdfRows, products, selectedIds, aiCat, quoteUi>>

\* what generateContent can come back with for the description: a rejection,
\* no text, or a text with blanks around it
AiTextResponses ==
    { [kind |-> "error", text |-> <<>>], [kind |-> "text", text |-> <<>>],
      [kind |-> "text", text |-> typed("A refined piece.", TRUE)] }

\* handleAiEnhanceDescription up to its await; the button is rendered for an
\* unlocked product and is never disabled
handleAiEnhanceDescription ==
    /\ editingProduct # NULL
    /\ ~Val(editingProduct).isLocked
    /\ editorAsync.enhance = NULL
    /\ editorAsync.upload = NULL
    /\ editorAsync' = [editorAsync EXCEPT !.enhance = Some([draft |-> Val(editingProduct)]),
                                          !.isAiProcessing = TRUE]
    /\ thrown' = "none"
    /\ UNCHANGED <<storeVars, quotaExceeded, viewVars, catalogOptions, pdfRows, productUi, quoteUi>>

\* the draft after `{ ...editingProduct, description: response.text.trim() }`
enhanced(draft, text) == [draft EXCEPT !.description = <<trim(text)>>]

\* handleAiEnhanceDescription after its await
aiEnhanceSettle(resp) ==
    /\ editorAsync.enhance # NULL
    /\ editingProduct' =
           IF resp.kind = "text" /\ resp.text # <<>>
           THEN Some(enhanced(Val(editorAsync.enhance).draft, resp.text))
           ELSE editingProduct
    /\ editorAsync' = [editorAsync EXCEPT !.enhance = NULL, !.isAiProcessing = FALSE]
    /\ thrown' = "none"
    /\ UNCHANGED <<storeVars, quotaExceeded, viewVars, catalogOptions, pdfRows, products, selectedIds, aiCat, quoteUi>>

\* what generateContent can come back with for the image: a rejection, or
\* the inline data of the parts of the first candidate
AiImageResponses ==
    { [kind |-> "error", parts |-> <<>>], [kind |-> "parts", parts |-> <<>>],
      [kind |-> "parts", parts |-> <<"data:image/png;base64,GGGG">>] }

\* setEditingProduct(prev => prev ? { ...prev, images: [imageUrl, ...prev.images] } : null), once per part
RECURSIVE prependParts(_, _)
prependParts(prev, parts) ==
    IF parts = <<>> \/ prev = NULL THEN prev
    ELSE prependParts(Some([Val(prev) EXCEPT !.images = <<Head(parts)>> \o @]), Tail(parts))

\* handleAiGenerateImage up to its await; the button is rendered for an
\* unlocked product and disabled while isAiProcessing
handleAiGenerateImage ==
    /\ editingProduct # NULL
    /\ ~Val(editingProduct).isLocked
    /\ ~editorAsync.isAiProcessing
    /\ editorAsync.image = NULL
    /\ editorAsync.upload = NULL
    /\ Len(Val(editingProduct).images) < MaxDraftImages
    /\ editorAsync' = [editorAsync EXCEPT !.image = Some([draft |-> Val(editingProduct)]),
                                          !.isAiProcessing = TRUE]
    /\ thrown' = "none"
    /\ UNCHANGED <<storeVars, quotaExceeded, viewVars, catalogOptions, pdfRows, productUi, quoteUi>>

\* handleAiGenerateImage after its await
aiImageSettle(resp) ==
    /\ editorAsync.image # NULL
    /\ editingProduct' = IF resp.kind = "parts" THEN prependParts(editingProduct, resp.parts)
                                                 ELSE editingProduct
    /\ editorAsync' = [editorAsync EXCEPT !.image = NULL, !.isAiProcessing = FALSE]
    /\ thrown' = "none"
    /\ UNCHANGED <<storeVars, quotaExceeded, viewVars, catalogOptions, pdfRows, products, selectedIds, aiCat, quoteUi>>

-----------------------------------------------------------------------------
(* Quotations tab: src/pages/Admin/Dashboard.tsx; quotations are submitted *)
(* by the public checkout page through db.quotations.add                   *)

QuoteIdPool == <<"q1", "q2", "q3">>
QuoteIds == {QuoteIdPool[k] : k \in 1..(IF MaxQuotes <= 3 THEN MaxQuotes ELSE 3)}
QuoteFees == {-100, 0, 300}
QuoteDiscounts == {0, 6000}
QuoteStatuses == {"Draft", "Sent", "Approved", "Rejected"}

\* the cart a quotation is built from: product snapshots with a quantity
cartOf(id) ==
    IF id = "q1"
    THEN <<[id |-> "m1", name |-> "Manual Desk", sellingPrice |-> 2500, quantity |-> 2]>>
    ELSE <<[id |-> "p32", name |-> "Executive Mesh Chair with Footrest",
            sellingPrice |-> calculateMarkup(11735), quantity |-> 1]>>

RECURSIVE cartSubtotal(_)
\* sum of sellingPrice * quantity over the items
cartSubtotal(items) ==
    IF items = <<>> THEN 0
    ELSE items[1].sellingPrice * items[1].quantity + cartSubtotal(Tail(items))

\* the quotation the checkout flow submits
newQuotation(id, date) ==
    [ id |-> id, number |-> id, date |-> date, customer |-> [name |-> "Ana"],
      items |-> cartOf(id), subtotal |-> cartSubtotal(cartOf(id)),
      deliveryFee |-> 0, discount |-> 0, grandTotal |-> cartSubtotal(cartOf(id)),
      status |-> "Draft" ]

\* checkout on the public page, then the dashboard mounts again
submitQuotation(id) ==
    /\ editingProduct = NULL /\ editingQuote = NULL
    /\ id \in QuoteIds
    /\ id \notin Ids(getAll(lsQuotations))
    /\ UNCHANGED <<lsProducts, quotaExceeded, viewVars, jobVars, editingProduct, editingQuote, aiCat>>
    /\ lsQuotations' = dbAdd(lsQuotations, newQuotation(id, Len(getAll(lsQuotations)) + 1), quotaExceeded)
    /\ thrown' = safeSetItemError(quotaExceeded)
    /\ refreshData
    /\ selectedIds' = {}

QuoteSearchTerms == {"", "ana", "SENT", "Q1", "zz"}

\* quotes.filter(q => number / customer.name .toLowerCase().includes(search.toLowerCase()))
filterQuotes(qs, search) ==
    SelectSeq(qs, LAMBDA q :
        \/ includes(toLowerCase(q.number), toLowerCase(search))
        \/ includes(toLowerCase(q.customer.name), toLowerCase(search)))

\* the rows of the quotations table
filteredQuotes == filterQuotes(quotes, quoteSearch)

\* onChange of the "Search customer or ref..." box
setQuoteSearch(search) ==
    /\ editingProduct = NULL /\ editingQuote = NULL
    /\ quoteSearch' = search
    /\ thrown' = "none"
    /\ UNCHANGED <<storeVars, quotaExceeded, productUi, quoteUi, initLog, jobVars, productSearch, catalogUi>>

handleEditQuote(i) ==
    /\ editingProduct = NULL /\ editingQuote = NULL
    /\ i \in 1..Len(filteredQuotes)
    /\ editingQuote' = Some(filteredQuotes[i])
    /\ thrown' = "none"
    /\ UNCHANGED <<storeVars, quotaExceeded, viewVars, jobVars, productUi, quotes>>

\* onChange of the three inputs of the adjustments form
editDeliveryFee(val) ==
    /\ editingQuote # NULL
    /\ editingQuote' = Some([Val(editingQuote) EXCEPT !.deliveryFee = val])
    /\ thrown' = "none"
    /\ UNCHANGED <<storeVars, quotaExceeded, viewVars, jobVars, productUi, quotes>>

editDiscount(val) ==
    /\ editingQuote # NULL
    /\ editingQuote' = Some([Val(editingQuote) EXCEPT !.discount = val])
    /\ thrown' = "none"
    /\ UNCHANGED <<storeVars, quotaExceeded, viewVars, jobVars, productUi, quotes>>

\* the draft after the Contract Status select changes: any of the four options
MutStatusRejectedIsTerminal(draft, status) ==
    IF draft.status = "Rejected" THEN draft ELSE [draft EXCEPT !.status = status]

onStatusChange(draft, status) == [draft EXCEPT !.status = status]

editStatus(status) ==
    /\ editingQuote # NULL
    /\ editingQuote' = Some(onStatusChange(Val(editingQuote), status))
    /\ thrown' = "none"
    /\ UNCHANGED <<storeVars, quotaExceeded, viewVars, jobVars, productUi, quotes>>

closeQuoteEditor ==
    /\ editingQuote # NULL
    /\ editingQuote' = NULL
    /\ thrown' = "none"
    /\ UNCHANGED <<storeVars, quotaExceeded, viewVars, jobVars, productUi, quotes>>

\* `total` of handleSaveQuote; (x || 0) is x for every number the inputs give
MutQuoteTotalStale(q) == q.grandTotal

quoteTotal(q) == q.subtotal + q.deliveryFee - q.discount

handleSaveQuote ==
    /\ editingQuote # NULL
    /\ UNCHANGED <<lsProducts, quotaExceeded, viewVars, jobVars, selectedIds, editingProduct, aiCat>>
    /\ LET draft == Val(editingQuote)
           updatedQuote == [draft EXCEPT !.grandTotal = quoteTotal(draft)]
       IN  /\ lsQuotations' = dbUpdate(lsQuotations, updatedQuote, quotaExceeded)
           /\ thrown' = dbUpdateError(lsQuotations, updatedQuote, quotaExceeded)
    /\ IF thrown' = "none"
       THEN refreshData /\ editingQuote' = NULL
       ELSE UNCHANGED <<products, quotes, editingQuote>>

QuoteNext ==
    \/ QuotaChange
    \/ \E id \in QuoteIds : submitQuotation(id)
    \/ \E i \in 1..Len(quotes) : handleEditQuote(i)
    \/ \E val \in QuoteFees : editDeliveryFee(val)
    \/ \E val \in QuoteDiscounts : editDiscount(val)
    \/ \E status \in QuoteStatuses : editStatus(status)
    \/ closeQuoteEditor
    \/ handleSaveQuote

QuoteSpec == Init /\ [][QuoteNext]_vars

-----------------------------------------------------------------------------
(* The public catalog page: src/unnamed/part_003 holds two versions of the *)
(* Catalog component, lines 31-185 and lines 227-372                       *)

CatalogCategories == {"All"} \cup ProductCategory

\* Catalog, first version: the derived list `filteredProducts`
catalogFilteredProducts(ps, term, category) ==
    SelectSeq(ps, LAMBDA product :
        LET matchesSearch == \/ includes(toLowerCase(product.name), toLowerCase(term))
                             \/ includes(toLowerCase(product.code), toLowerCase(term))
            matchesCategory == category = "All" \/ product.category = category
        IN  matchesSearch /\ matchesCategory)

\* Catalog, second version: the list the filter effect stores in `filteredProducts`
catalogFilterEffect(ps, category, query) ==
    LET byCategory == IF category # "All"
                      THEN SelectSeq(ps, LAMBDA p : p.category = category)
                      ELSE ps
    IN  IF query # ""
        THEN SelectSeq(byCategory, LAMBDA p :
                 \/ includes(toLowerCase(p.name), toLowerCase(query))
                 \/ includes(toLowerCase(p.code), toLowerCase(query))
                 \/ includes(toLowerCase(p.category), toLowerCase(query)))
        ELSE byCategory

\* allProducts.sort((a, b) => a.isActive === b.isActive ? 0 : a.isActive ? -1 : 1), a stable sort
sortActiveFirst(ps) ==
    SelectSeq(ps, LAMBDA p : p.isActive) \o SelectSeq(ps, LAMBDA p : ~p.isActive)

\* the load timer of the first version: setProducts(db.products.getAll())
catalogLoad ==
    /\ catalogProducts' = getAll(lsProducts)
    /\ thrown' = "none"
    /\ UNCHANGED <<storeVars, quotaExceeded, productUi, quoteUi, initLog, jobVars, searchUi, searchTerm, selectedCategory>>

\* the load timer of the second version: the products sorted active first
catalogLoadSorted ==
    /\ catalogProducts' = sortActiveFirst(getAll(lsProducts))
    /\ thrown' = "none"
    /\ UNCHANGED <<storeVars, quotaExceeded, productUi, quoteUi, initLog, jobVars, searchUi, searchTerm, selectedCategory>>

\* onChange of the catalog's search box
setSearchTerm(term) ==
    /\ searchTerm' = term
    /\ thrown' = "none"
    /\ UNCHANGED <<storeVars, quotaExceeded, productUi, quoteUi, initLog, jobVars, searchUi, catalogProducts, selectedCategory>>

\* a category button of the catalog's sidebar
setSelectedCategory(category) ==
    /\ selectedCategory' = category
    /\ thrown' = "none"
    /\ UNCHANGED <<storeVars, quotaExceeded, productUi, quoteUi, initLog, jobVars, searchUi, catalogProducts, searchTerm>>

\* the products the two versions of the catalog render as cards
catalogShown ==
    Range(catalogFilteredProducts(catalogProducts, searchTerm, selectedCategory))
    \cup Range(catalogFilterEffect(catalogProducts, selectedCategory, searchTerm))

\* the admin hides and shows products while the catalog is browsed
CatalogNext ==
    \/ QuotaChange
    \/ \E id \in Ids(products) : toggleSelectOne(id)
    \/ \E isActive \in BOOLEAN : handleBulkStatusToggle(isActive)
    \/ catalogLoad
    \/ catalogLoadSorted
    \/ \E term \in SearchTerms : setSearchTerm(term)
    \/ \E category \in CatalogCategories : setSelectedCategory(category)

CatalogSpec == Init /\ [][CatalogNext]_vars

-----------------------------------------------------------------------------
(* The search boxes applied to manually entered products and to submitted  *)
(* quotations                                                              *)

\* a product entered through "New Product" and saved
manualProduct(id, code, name, category) ==
    [newProduct(id) EXCEPT !.code = code, !.name = name, !.category = category]

ManualProducts ==
    { manualProduct("n1", "OD-1", "Oak Desk", "Executive Table"),
      manualProduct("n2", "ch2", "Mesh Seat", "Office Chair"),
      manualProduct("n3", "SF-9", "Sofa", "Other") }

SubmittedQuotes ==
    { [newQuotation("q1", 1) EXCEPT !.status = "Sent"],
      [newQuotation("q2", 2) EXCEPT !.customer = [name |-> "Ben Santos"]] }

\* the lists of at most MaxFilterItems distinct records of S
ListsOf(S) ==
    {l \in UNION {[1..n -> S] : n \in 0..MaxFilterItems} :
        \A i, j \in 1..Len(l) : i # j => l[i].id # l[j].id}

\* the store holds manual products and submitted quotations; the dashboard
\* and the catalog have loaded them
FilterInit ==
    /\ quotaExceeded = FALSE
    /\ \E ps \in ListsOf(ManualProducts) : lsProducts = Stored(ps)
    /\ \E qs \in ListsOf(SubmittedQuotes) : lsQuotations = Stored(qs)
    /\ thrown = "none"
    /\ products = getAll(lsProducts)
    /\ quotes = sortByDateDesc(getAll(lsQuotations))
    /\ selectedIds = {}
    /\ editingProduct = NULL
    /\ editingQuote = NULL
    /\ aiCat = NULL
    /\ initLog = <<"ok">>
    /\ productSearch = ""
    /\ quoteSearch = ""
    /\ catalogProducts = getAll(lsProducts)
    /\ searchTerm = ""
    /\ selectedCategory = "All"
    /\ editorAsync = NoEditorCalls
    /\ catalogOptions = [sortBy |-> "name"]
    /\ pdfRows = <<>>

FilterNext ==
    \/ \E search \in SearchTerms : setProductSearch(search)
    \/ \E search \in QuoteSearchTerms : setQuoteSearch(search)
    \/ \E term \in SearchTerms : setSearchTerm(term)
    \/ \E category \in CatalogCategories : setSelectedCategory(category)

FilterSpec == FilterInit /\ [][FilterNext]_vars

-----------------------------------------------------------------------------
(* The db accessor called directly: src/services/db.ts.  Callers pass      *)
(* records with fresh ids to add (ids are crypto.randomUUID() values).     *)

StoreProductIds == {NewIdPool[k] : k \in 1..(IF MaxStoreAdds <= 3 THEN MaxStoreAdds ELSE 3)}
StoreQuoteIds == {QuoteIdPool[k] : k \in 1..(IF MaxStoreAdds <= 3 THEN MaxStoreAdds ELSE 3)}
StoreDeleteIds == Ids(SeedCatalog) \cup StoreProductIds \cup StoreQuoteIds \cup {"unknown"}

dbProductsAdd(product) ==
    /\ product.id \notin Ids(getAll(lsProducts))
    /\ lsProducts' = dbAdd(lsProducts, product, quotaExceeded)
    /\ thrown' = safeSetItemError(quotaExceeded)
    /\ UNCHANGED <<lsQuotations, quotaExceeded, viewVars, jobVars, productUi, quoteUi>>

dbProductsUpdate(product) ==
    /\ lsProducts' = dbUpdate(lsProducts, product, quotaExceeded)
    /\ thrown' = dbUpdateError(lsProducts, product, quotaExceeded)
    /\ UNCHANGED <<lsQuotations, quotaExceeded, viewVars, jobVars, productUi, quoteUi>>

dbProductsDelete(id) ==
    /\ lsProducts' = dbDelete(lsProducts, id, quotaExceeded)
    /\ thrown' = safeSetItemError(quotaExceeded)
    /\ UNCHANGED <<lsQuotations, quotaExceeded, viewVars, jobVars, productUi, quoteUi>>

dbQuotationsAdd(quote) ==
    /\ quote.id \notin Ids(getAll(lsQuotations))
    /\ lsQuotations' = dbAdd(lsQuotations, quote, quotaExceeded)
    /\ thrown' = safeSetItemError(quotaExceeded)
    /\ UNCHANGED <<lsProducts, quotaExceeded, viewVars, jobVars, productUi, quoteUi>>

dbQuotationsUpdate(quote) ==
    /\ lsQuotations' = dbUpdate(lsQuotations, quote, quotaExceeded)
    /\ thrown' = dbUpdateError(lsQuotations, quote, quotaExceeded)
    /\ UNCHANGED <<lsProducts, quotaExceeded, viewVars, jobVars, productUi, quoteUi>>

dbQuotationsDelete(id) ==
    /\ lsQuotations' = dbDelete(lsQuotations, id, quotaExceeded)
    /\ thrown' = safeSetItemError(quotaExceeded)
    /\ UNCHANGED <<lsProducts, quotaExceeded, viewVars, jobVars, productUi, quoteUi>>

StoreNext ==
    \/ QuotaChange
    \/ \E id \in StoreProductIds : dbProductsAdd(newProduct(id))
    \/ \E id \in StoreDeleteIds, isActive \in BOOLEAN :
           dbProductsUpdate([newProduct(id) EXCEPT !.isActive = isActive])
    \/ \E id \in StoreDeleteIds : dbProductsDelete(id)
    \/ \E id \in StoreQuoteIds : dbQuotationsAdd(newQuotation(id, 1))
    \/ \E id \in StoreDeleteIds, status \in {"Draft", "Sent"} :
           dbQuotationsUpdate([newQuotation(id, 1) EXCEPT !.status = status])
    \/ \E id \in StoreDeleteIds : dbQuotationsDelete(id)

StoreSpec == Init /\ [][StoreNext]_vars

-----------------------------------------------------------------------------
(* Page loads between store operations: src/services/db.ts, lines 24-38 *)

LoadNext ==
    \/ QuotaChange
    \/ moduleLoad
    \/ \E id \in StoreProductIds : dbProductsAdd(newProduct(id))
    \/ \E id \in StoreDeleteIds, isActive \in BOOLEAN :
           dbProductsUpdate([newProduct(id) EXCEPT !.isActive = isActive])
    \/ \E id \in StoreDeleteIds : dbProductsDelete(id)
    \/ \E id \in StoreQuoteIds : dbQuotationsAdd(newQuotation(id, 1))
    \/ \E id \in StoreDeleteIds : dbQuotationsDelete(id)

LoadSpec == Init /\ [][LoadNext]_vars

-----------------------------------------------------------------------------
(* The pricing rule applied to every cost: the price input of the editor of *)
(* a new product                                                            *)

PriceNext ==
    \/ \E id \in NewIds : handleAddNewProduct(id)
    \/ \E val \in 0..MaxCost : editOriginalPrice(val)
    \/ closeProductEditor

PriceSpec == Init /\ [][PriceNext]_vars

-----------------------------------------------------------------------------
(* The product editor alone: every input and button of the modal *)

EditorNext ==
    \/ QuotaChange
    \/ \E i \in 1..Len(products) : handleEditClick(i)
    \/ \E id \in NewIds : handleAddNewProduct(id)
    \/ \E val \in EditorCosts : editOriginalPrice(val)
    \/ \E edit \in EditorCoreEdits : editCoreField(edit[1], edit[2])
    \/ \E input \in ImageUrlInputs : handleAddImageUrl(input)
    \/ \E idx \in 1..2 : removeImage(idx)
    \/ \E idx \in 1..2 : handleSetPrimary(idx)
    \/ closeProductEditor
    \/ handleSaveProduct

EditorSpec == Init /\ [][EditorNext]_vars

-----------------------------------------------------------------------------
(* The gallery of the product editor: the image list of a manual product *)

GalleryUrlPool ==
    << "https://cdn.example/a.jpg", "https://cdn.example/b.jpg", "https://cdn.example/c.jpg",
       "https://cdn.example/d.jpg", "https://cdn.example/e.jpg" >>

GalleryUrlInputs ==
    {typed(t, b) :
        t \in {GalleryUrlPool[k] : k \in 1..(IF MaxGalleryUrls <= 5 THEN MaxGalleryUrls ELSE 5)}
               \cup {"", "ftp://files/a.jpg"},
        b \in BOOLEAN}

GalleryNext ==
    \/ QuotaChange
    \/ \E id \in NewIds : handleAddNewProduct(id)
    \/ \E input \in GalleryUrlInputs : handleAddImageUrl(input)
    \/ \E idx \in 1..MaxGalleryUrls : removeImage(idx)
    \/ \E idx \in 1..MaxGalleryUrls : handleSetPrimary(idx)
    \/ closeProductEditor

GallerySpec == Init /\ [][GalleryNext]_vars

-----------------------------------------------------------------------------
(* The product editor with its asynchronous calls *)

AsyncNext ==
    \/ \E i \in 1..Len(products) : handleEditClick(i)
    \/ \E id \in NewIds : handleAddNewProduct(id)
    \/ closeProductEditor
    \/ \E files \in UploadBatches : handleImageUpload(files)
    \/ imageUploadSettle
    \/ handleAiEnhanceDescription
    \/ \E resp \in AiTextResponses : aiEnhanceSettle(resp)
    \/ handleAiGenerateImage
    \/ \E resp \in AiImageResponses : aiImageSettle(resp)

AsyncSpec == Init /\ [][AsyncNext]_vars

-----------------------------------------------------------------------------
(* Catalog export: src/utils/pdfGenerator.ts generateCatalogPDF, called by *)
(* handleDownloadCatalog of the dashboard with its products and options    *)

\* the characters of the texts that are sorted, in the order of the default
\* collation: blank, punctuation, digits, letters; a letter and its capital
\* share a place
CollationOrder ==
    << " ", "-", ":", ".", "/",
       "0", "1", "2", "3", "4", "5", "6", "7", "8", "9",
       "a", "b", "c", "d", "e", "f", "g", "h", "i", "j", "k", "l", "m",
       "n", "o", "p", "q", "r", "s", "t", "u", "v", "w", "x", "y", "z" >>

primaryWeight(c) == CHOOSE i \in 1..Len(CollationOrder) : CollationOrder[i] = toLowerChar(c)

\* lexicographic comparison of two sequences of numbers: -1, 0 or 1
RECURSIVE compareWeights(_, _)
compareWeights(xs, ys) ==
    IF xs = <<>> THEN (IF ys = <<>> THEN 0 ELSE -1)
    ELSE IF ys = <<>> THEN 1
    ELSE IF Head(xs) < Head(ys) THEN -1
    ELSE IF Head(xs) > Head(ys) THEN 1
    ELSE compareWeights(Tail(xs), Tail(ys))

\* a.localeCompare(b): the letters decide first, whatever their case; texts
\* with the same letters are ordered by case, the small letter first
localeCompare(a, b) ==
    LET as == Chars(a)
        bs == Chars(b)
        primary == compareWeights([i \in 1..Len(as) |-> primaryWeight(as[i])],
                                  [i \in 1..Len(bs) |-> primaryWeight(bs[i])])
        caseWeight(cs) == [i \in 1..Len(cs) |-> IF toLowerChar(cs[i]) = cs[i] THEN 0 ELSE 1]
    IN  IF primary # 0 THEN primary ELSE compareWeights(caseWeight(as), caseWeight(bs))

\* the comparator handed to sortedProducts.sort
compareProducts(sortBy, a, b) ==
    CASE sortBy = "category" -> localeCompare(a.category, b.category)
      [] sortBy = "price-asc" -> a.sellingPrice - b.sellingPrice
      [] sortBy = "price-desc" -> b.sellingPrice - a.sellingPrice
      [] sortBy = "code" -> localeCompare(a.code, b.code)
      [] OTHER -> localeCompare(a.name, b.name)

\* Array.prototype.sort is stable: an element goes behind every element
\* that does not compare greater than it
insertSorted(sorted, x, sortBy) ==
    LET k == Cardinality({i \in 1..Len(sorted) : compareProducts(sortBy, sorted[i], x) <= 0})
    IN  SubSeq(sorted, 1, k) \o <<x>> \o SubSeq(sorted, k + 1, Len(sorted))

RECURSIVE sortProducts(_, _)
sortProducts(ps, sortBy) ==
    IF ps = <<>> THEN <<>>
    ELSE insertSorted(sortProducts(SubSeq(ps, 1, Len(ps) - 1), sortBy), ps[Len(ps)], sortBy)

\* `const { sortBy = 'name' } = options`
sortByOf(options) == IF "sortBy" \in DOMAIN options THEN options.sortBy ELSE "name"

\* the products behind tableRows: the active ones of a copy, sorted
MutCatalogRowsUnsorted(ps, options) == SelectSeq(ps, LAMBDA p : p.isActive)

catalogRows(ps, options) == sortProducts(SelectSeq(ps, LAMBDA p : p.isActive), sortByOf(options))

SortKeys == {"name", "category", "price-asc", "price-desc", "code"}

\* the five sort buttons of the export dialog
setCatalogSortBy(val) ==
    /\ catalogOptions' = [catalogOptions EXCEPT !.sortBy = val]
    /\ thrown' = "none"
    /\ UNCHANGED <<storeVars, quotaExceeded, viewVars, editorAsync, pdfRows, productUi, quoteUi>>

\* the Generate button: generateCatalogPDF(products, catalogOptions); an
\* image that cannot be fetched is left blank, the rows are built all the same
handleDownloadCatalog ==
    /\ pdfRows' = catalogRows(products, catalogOptions)
    /\ thrown' = "none"
    /\ UNCHANGED <<storeVars, quotaExceeded, viewVars, editorAsync, catalogOptions, productUi, quoteUi>>

exportProduct(id, code, name, category, price, isActive) ==
    [onOriginalPriceChange(manualProduct(id, code, name, category), price) EXCEPT
        !.isActive = isActive]

\* manual products with equal names, equal categories and equal prices
\* among them, each active or not
ExportProducts ==
    UNION { { exportProduct("n1", "OD-1", "Oak Desk", "Executive Table", 100, b),
              exportProduct("n2", "ch2", "Mesh Seat", "Office Chair", 50, b),
              exportProduct("n3", "D-1", "Oak Desk", "Office Chair", 100, b) } : b \in BOOLEAN }

ExportLists ==
    {l \in UNION {[1..n -> ExportProducts] : n \in 0..(IF MaxExportItems <= 3 THEN MaxExportItems ELSE 3)} :
        \A i, j \in 1..Len(l) : i # j => l[i].id # l[j].id}

\* the store holds manual products and the dashboard has loaded them
ExportInit ==
    /\ quotaExceeded = FALSE
    /\ \E ps \in ExportLists : lsProducts = Stored(ps)
    /\ lsQuotations = Stored(<<>>)
    /\ thrown = "none"
    /\ products = getAll(lsProducts)
    /\ quotes = <<>>
    /\ selectedIds = {}
    /\ editingProduct = NULL
    /\ editingQuote = NULL
    /\ aiCat = NULL
    /\ initLog = <<"ok">>
    /\ productSearch = ""
    /\ quoteSearch = ""
    /\ catalogProducts = <<>>
    /\ searchTerm = ""
    /\ selectedCategory = "All"
    /\ editorAsync = NoEditorCalls
    /\ catalogOptions = [sortBy |-> "name"]
    /\ pdfRows = <<>>

ExportNext ==
    \/ \E val \in SortKeys : setCatalogSortBy(val)
    \/ handleDownloadCatalog

ExportSpec == ExportInit /\ [][ExportNext]_vars

-----------------------------------------------------------------------------
(* Admin dashboard, products tab: the specification *)

Next ==
    \/ QuotaChange
    \/ \E id \in Ids(products) : toggleSelectOne(id)
    \/ \E checked \in BOOLEAN : toggleSelectAll(checked)
    \/ \E isActive \in BOOLEAN : handleBulkStatusToggle(isActive)
    \/ \E category \in BulkCategories : handleBulkCategoryChange(category)
    \/ \E confirmed \in BOOLEAN : handleBulkDelete(confirmed)
    \/ handleAiBulkCategorize
    \/ \E resp \in AiResponses : aiCategorizeSettle(resp)
    \/ \E i \in 1..Len(products) : handleEditClick(i)
    \/ \E id \in NewIds : handleAddNewProduct(id)
    \/ \E val \in EditorCosts : editOriginalPrice(val)
    \/ closeProductEditor
    \/ handleSaveProduct

Spec == Init /\ [][Next]_vars

-----------------------------------------------------------------------------
(* Properties *)

storedProducts == getAll(lsProducts)
storedQuotes == getAll(lsQuotations)

\* handleSaveQuote ran to its end: the write was made and the editor closed
quoteCommitted == handleSaveQuote /\ thrown' = "none"

\* the record the commit left in the Quotations slot for the draft's id
committedQuotes == {q \in Range(getAll(lsQuotations')) : q.id = Val(editingQuote).id}

\* C1: whenever a quotation draft is committed through handleSaveQuote, the
\* persisted grandTotal equals max(0, subtotal + deliveryFee - discount); it
\* is 0, never negative, when the discount exceeds subtotal + deliveryFee.
C1_GrandTotalClamped ==
    [][quoteCommitted =>
         \A q \in committedQuotes :
             q.grandTotal = Max(0, Val(editingQuote).subtotal + Val(editingQuote).deliveryFee
                                      - Val(editingQuote).discount)]_vars

\* C2: a bulk delete never removes a locked product: every product that was
\* locked in the persisted collection before the bulk delete is still in the
\* persisted collection after it, selected or not.
C2_BulkDeleteKeepsLocked ==
    [][handleBulkDelete(TRUE) =>
         \A p \in Range(storedProducts) : p.isLocked => p \in Range(getAll(lsProducts'))]_vars

\* C3: every whole-collection write (saveAll) of the dashboard is computed
\* from an in-memory snapshot equal to the store's contents at the moment of
\* the write, also when the write is the late result of an AI categorisation
\* request, so no change committed earlier in the tab is overwritten.
C3_NoStaleWrite ==
    [][/\ (\E resp \in AiResponses : resp.kind = "array" /\ aiCategorizeSettle(resp))
            => Val(aiCat) = storedProducts
       /\ ((\E isActive \in BOOLEAN : handleBulkStatusToggle(isActive))
            \/ (\E category \in BulkCategories \ {""} : handleBulkCategoryChange(category))
            \/ handleBulkDelete(TRUE))
            => products = storedProducts]_vars

\* C4: when the storage quota is exceeded during a product save (add or
\* update), the error reaches the caller, the Products slot keeps exactly its
\* previous contents, and the editor still holds the same draft.
C4_QuotaFailureKeepsDraft ==
    [][(handleSaveProduct /\ quotaExceeded) =>
         /\ thrown' = "StorageFull"
         /\ lsProducts' = lsProducts
         /\ editingProduct' # NULL
         /\ editingProduct' = editingProduct]_vars

\* a save of a new, edited product failed on the quota and the draft is still open
C4_Witness ==
    /\ thrown = "StorageFull"
    /\ editingProduct # NULL
    /\ Val(editingProduct).id \notin Ids(storedProducts)
    /\ Val(editingProduct).originalPrice = 50

\* C5: every commit of a quotation draft writes the draft's deliveryFee and
\* discount together with a grandTotal recomputed from the draft's own
\* subtotal, deliveryFee and discount; the persisted record never pairs the
\* new adjustments with the grandTotal stored before the edit.
C5_CommitRecomputesTotal ==
    [][quoteCommitted =>
         /\ committedQuotes # {}
         /\ \A q \in committedQuotes :
               /\ q.deliveryFee = Val(editingQuote).deliveryFee
               /\ q.discount = Val(editingQuote).discount
               /\ q.status = Val(editingQuote).status
               /\ q.grandTotal = q.subtotal + q.deliveryFee - q.discount]_vars

\* a committed quotation carries both adjustments and the total that follows from them
C5_Witness ==
    \E q \in Range(storedQuotes) :
        /\ q.deliveryFee = 300 /\ q.discount = 0 /\ q.status = "Sent"
        /\ q.grandTotal = q.subtotal + 300

\* the selling price is the mathematical ceil(cost * 1.10) and not below the cost
priceIsCeil(p) == p.sellingPrice = CeilMarkup(p.originalPrice) /\ p.sellingPrice >= p.originalPrice

\* C6: for every cost >= 0 the selling price derived when originalPrice is
\* set, in the editor and in the seed catalog, equals ceil(cost * 1.10) and is
\* at least the cost.
C6_SellingPriceIsCeil ==
    /\ editingProduct # NULL => priceIsCeil(Val(editingProduct))
    /\ \A p \in Range(storedProducts) : priceIsCeil(p)

\* the draft stays open on the same product and one of its prices changes
draftPriceEdited ==
    /\ editingProduct # NULL /\ editingProduct' # NULL
    /\ Val(editingProduct').id = Val(editingProduct).id
    /\ \/ Val(editingProduct').sellingPrice # Val(editingProduct).sellingPrice
       \/ Val(editingProduct').originalPrice # Val(editingProduct).originalPrice

C8_RoundTripWithinOne ==
    editingProduct # NULL =>
        Abs(fromSellingPrice(Val(editingProduct).sellingPrice) - Val(editingProduct).originalPrice) <= 1

\* a cost whose round trip is off by exactly one: 1 -> 2 -> round(1.82) = 2
C8_Witness ==
    /\ editingProduct # NULL
    /\ Val(editingProduct).originalPrice = 1
    /\ fromSellingPrice(Val(editingProduct).sellingPrice) = 2

\* item is in coll exactly once, at the end, after the records of old in their order
appendedOnce(old, coll, item) ==
    /\ Len(coll) = Len(old) + 1
    /\ coll[Len(coll)] = item
    /\ \A i \in 1..Len(old) : coll[i] = old[i]
    /\ Cardinality({i \in 1..Len(coll) : coll[i] = item}) = 1

\* C9: after add(item) succeeds on either collection, getAll contains the new
\* record exactly once, appended after the previously stored records, which
\* are unchanged and keep their order.
C9_AddAppendsOnce ==
    [][/\ \A id \in StoreProductIds :
             (dbProductsAdd(newProduct(id)) /\ thrown' = "none")
                 => appendedOnce(storedProducts, getAll(lsProducts'), newProduct(id))
       /\ \A id \in StoreQuoteIds :
             (dbQuotationsAdd(newQuotation(id, 1)) /\ thrown' = "none")
                 => appendedOnce(storedQuotes, getAll(lsQuotations'), newQuotation(id, 1))]_vars

\* both collections hold a record added after the ones stored before
C9_Witness ==
    /\ Len(storedProducts) = NumSeeds + 2
    /\ storedProducts[NumSeeds + 2] = newProduct("n1")
    /\ storedQuotes = <<newQuotation("q2", 1), newQuotation("q1", 1)>>

\* coll is old without the records of that id: the others unchanged, in order
removedById(old, coll, id) ==
    /\ id \notin Ids(coll)
    /\ Len(coll) = Cardinality({i \in 1..Len(old) : old[i].id # id})
    /\ \A i \in 1..Len(coll) : coll[i] \in Range(old)
    /\ \A i, j \in 1..Len(coll) : i < j => findIndex(old, coll[i].id) < findIndex(old, coll[j].id)
    /\ id \notin Ids(old) => coll = old

\* C10: after delete(id) on either collection, getAll contains no record with
\* that id, every record with another id is kept unchanged and in the same
\* relative order, and the collection is unchanged when no record has the id.
C10_DeleteRemovesById ==
    [][\A id \in StoreDeleteIds :
          /\ (dbProductsDelete(id) /\ thrown' = "none")
                => removedById(storedProducts, getAll(lsProducts'), id)
          /\ (dbQuotationsDelete(id) /\ thrown' = "none")
                => removedById(storedQuotes, getAll(lsQuotations'), id)]_vars

\* the seed record was deleted from between its neighbours' positions: the
\* records added after it remain, in their order
C10_Witness ==
    /\ lsProducts.set
    /\ Ids(INITIAL_PRODUCTS) \cap Ids(storedProducts) = {}
    /\ Len(storedProducts) = 2
    /\ storedProducts[1].id = "n2" /\ storedProducts[2].id = "n1"
    /\ lsQuotations.set /\ storedQuotes = <<>>

\* coll is old with the first record of item's id replaced by item, or old
\* itself when no record has that id
replacedFirst(old, coll, item) ==
    LET index == findIndex(old, item.id)
    IN  IF index = 0 THEN coll = old
        ELSE /\ Len(coll) = Len(old)
             /\ coll[index] = item
             /\ \A i \in 1..Len(old) : i # index => coll[i] = old[i]

\* the records the store actions pass to update
updateProductArgs == {[newProduct(id) EXCEPT !.isActive = isActive] : id \in StoreDeleteIds, isActive \in BOOLEAN}
updateQuoteArgs == {[newQuotation(id, 1) EXCEPT !.status = status] : id \in StoreDeleteIds, status \in {"Draft", "Sent"}}

\* C11: update(item) replaces only the first stored element whose id equals
\* item.id and leaves every other element, the order and the length of the
\* collection unchanged; when no stored element has that id, update makes no
\* write, leaves the slot as it was and signals no error, quota or not.
C11_UpdateReplacesFirstMatch ==
    [][/\ \A item \in updateProductArgs :
             dbProductsUpdate(item) =>
                 /\ thrown' = "none" => replacedFirst(storedProducts, getAll(lsProducts'), item)
                 /\ item.id \notin Ids(storedProducts) => (lsProducts' = lsProducts /\ thrown' = "none")
       /\ \A item \in updateQuoteArgs :
             dbQuotationsUpdate(item) =>
                 /\ thrown' = "none" => replacedFirst(storedQuotes, getAll(lsQuotations'), item)
                 /\ item.id \notin Ids(storedQuotes) => (lsQuotations' = lsQuotations /\ thrown' = "none")]_vars

\* a record between two others was replaced in place, in both collections
C11_Witness ==
    /\ thrown = "none"
    /\ Len(storedProducts) = NumSeeds + 2
    /\ storedProducts[NumSeeds + 1] = [newProduct("n1") EXCEPT !.isActive = FALSE]
    /\ storedProducts[NumSeeds + 2] = newProduct("n2")
    /\ storedQuotes = <<[newQuotation("q1", 1) EXCEPT !.status = "Sent"], newQuotation("q2", 1)>>

\* C12: a single-record delete applied to the id of a locked product leaves
\* that product in the persisted Products collection.
C12_SingleDeleteKeepsLocked ==
    [][\A id \in StoreDeleteIds :
          dbProductsDelete(id) =>
              \A p \in Range(storedProducts) :
                  (p.id = id /\ p.isLocked) => p \in Range(getAll(lsProducts'))]_vars

\* C13: initialisation seeds the Products slot from the built-in reference
\* list, every record of it locked, only when the slot is empty; a later
\* initialisation never overwrites or extends a Products collection that is
\* already in the slot, whatever store operations came before.
C13_SeedOnlyWhenEmpty ==
    [][moduleLoad =>
         /\ lsProducts.set => lsProducts' = lsProducts
         /\ lsProducts' # lsProducts =>
               /\ ~lsProducts.set
               /\ lsProducts' = Stored(INITIAL_PRODUCTS)
               /\ \A p \in Range(getAll(lsProducts')) : p.isLocked
         /\ (~lsProducts.set /\ ~quotaExceeded) => lsProducts' = Stored(INITIAL_PRODUCTS)]_vars

\* a second initialisation has run without error and the slot holds a
\* collection that exists but was emptied of the seed records
C13_Witness ==
    /\ Len(initLog) = 2 /\ initLog[2] = "ok"
    /\ lsProducts.set /\ storedProducts = <<>>
    /\ lsQuotations.set

\* C14: a storage-capacity failure during seed initialisation is caught and
\* logged and does not propagate, so the db accessor is created; getAll on a
\* collection that was not seeded returns the empty sequence.
C14_SeedFailureIsLogged ==
    [][(moduleLoad /\ initDBError(lsProducts, lsQuotations, quotaExceeded) # "none") =>
         /\ thrown' = "none"
         /\ initLog'[Len(initLog')] = "logged"
         /\ storeVars' = storeVars
         /\ ~lsProducts'.set => getAll(lsProducts') = <<>>
         /\ ~lsQuotations'.set => getAll(lsQuotations') = <<>>]_vars

\* a reload failed to seed the quotations while the products were already
\* stored: the failure is in the log and the quotations read as empty
C14_Witness ==
    /\ Len(initLog) = 2 /\ initLog[2] = "logged"
    /\ thrown = "none"
    /\ lsProducts.set /\ ~lsQuotations.set
    /\ getAll(lsQuotations) = <<>>

\* the seed record of that id
seedOf(id) == SeedCatalog[CHOOSE i \in 1..Len(SeedCatalog) : SeedCatalog[i].id = id]

\* C15: for a locked product the fields name, code, category and dimensions
\* are read-only: after any sequence of admin operations the persisted
\* values of these four fields are the values the record was seeded with.
C15_LockedCoreFieldsKept ==
    \A p \in Range(storedProducts) :
        (p.isLocked /\ p.id \in Ids(SeedCatalog)) =>
            /\ p.name = seedOf(p.id).name
            /\ p.code = seedOf(p.id).code
            /\ p.category = seedOf(p.id).category
            /\ p.dimensions = seedOf(p.id).dimensions

\* C16: isLocked does not prevent price or image edits: with a locked product
\* open in the editor, originalPrice can still be changed and the images list
\* can still be changed (add, remove, set primary).
C16_LockedPriceAndImagesEditable ==
    (editingProduct # NULL /\ Val(editingProduct).isLocked) =>
        /\ ENABLED (\E val \in EditorCosts : editOriginalPrice(val))
        /\ ENABLED (\E input \in ImageUrlInputs : handleAddImageUrl(input))
        /\ ENABLED (\E idx \in 1..2 : removeImage(idx))
        /\ ENABLED (\E idx \in 1..2 : handleSetPrimary(idx))

\* the filter of the claim: the query is a case-insensitive substring of the
\* name, code or category, and the category is the selected one unless "All"
claimedProductFilter(ps, query, category) ==
    SelectSeq(ps, LAMBDA p :
        /\ \/ includes(toLowerCase(p.name), toLowerCase(query))
           \/ includes(toLowerCase(p.code), toLowerCase(query))
           \/ includes(toLowerCase(p.category), toLowerCase(query))
        /\ category = "All" \/ p.category = category)

\* C17: a product is in the filtered result if and only if the query is a
\* case-insensitive substring of its name, code or category and, when a
\* category other than "All" is selected, its category is the selected one;
\* the result keeps the input order.  The dashboard has no category selector.
C17_ProductFilter ==
    /\ filteredProducts = claimedProductFilter(products, productSearch, "All")
    /\ catalogFilteredProducts(catalogProducts, searchTerm, selectedCategory)
           = claimedProductFilter(catalogProducts, searchTerm, selectedCategory)
    /\ catalogFilterEffect(catalogProducts, selectedCategory, searchTerm)
           = claimedProductFilter(catalogProducts, searchTerm, selectedCategory)

\* C18: a quotation is in the filtered result if and only if the query is a
\* case-insensitive substring of its number, its customer.name or its status.
C18_QuoteFilter ==
    filteredQuotes =
        SelectSeq(quotes, LAMBDA q :
            \/ includes(toLowerCase(q.number), toLowerCase(quoteSearch))
            \/ includes(toLowerCase(q.customer.name), toLowerCase(quoteSearch))
            \/ includes(toLowerCase(q.status), toLowerCase(quoteSearch)))

\* C19: no product with isActive = FALSE is in the list the public catalog
\* displays, while it remains in the persisted Products collection.
C19_InactiveHidden ==
    \A p \in catalogShown : p.isActive

\* C20: after a bulk status change with value v over a selection, every
\* selected product has isActive = v and its other fields unchanged, every
\* unselected product is unchanged, and the persisted collection has the
\* same length and order as before.
C20_BulkSetActiveFrame ==
    [][\A v \in BOOLEAN :
          (handleBulkStatusToggle(v) /\ thrown' = "none") =>
              LET old == storedProducts
                  new == getAll(lsProducts')
              IN  /\ Len(new) = Len(old)
                  /\ \A i \in 1..Len(old) :
                        new[i] = IF old[i].id \in selectedIds
                                 THEN [old[i] EXCEPT !.isActive = v]
                                 ELSE old[i]]_vars

\* the seed record was deactivated by a bulk change while the unselected
\* manual product after it stayed active, in place
C20_Witness ==
    /\ thrown = "none" /\ selectedIds = {}
    /\ Len(storedProducts) = NumSeeds + 1
    /\ storedProducts[1] = [INITIAL_PRODUCTS[1] EXCEPT !.isActive = FALSE]
    /\ ~storedProducts[NumSeeds + 1].isLocked
    /\ storedProducts[NumSeeds + 1].isActive

\* C21: a bulk category change with a non-empty category gives exactly the
\* selected products that category and changes nothing else (other fields,
\* unselected products, length, order); with an empty category it is
\* ignored: nothing is written and store and selection stay as they were.
C21_BulkSetCategoryFrame ==
    [][/\ \A category \in BulkCategories \ {""} :
             (handleBulkCategoryChange(category) /\ thrown' = "none") =>
                 LET old == storedProducts
                     new == getAll(lsProducts')
                 IN  /\ Len(new) = Len(old)
                     /\ \A i \in 1..Len(old) :
                           new[i] = IF old[i].id \in selectedIds
                                    THEN [old[i] EXCEPT !.category = category]
                                    ELSE old[i]
       /\ handleBulkCategoryChange("") =>
             /\ lsProducts' = lsProducts
             /\ selectedIds' = selectedIds
             /\ thrown' = "none"]_vars

\* the seed record was moved to another category, its other fields as
\* seeded, and the manual product after it still has its edited price
C21_Witness ==
    /\ thrown = "none" /\ selectedIds = {}
    /\ Len(storedProducts) = NumSeeds + 1
    /\ storedProducts[1] = [INITIAL_PRODUCTS[1] EXCEPT !.category = "Other"]
    /\ storedProducts[NumSeeds + 1] =
           [newProduct("n1") EXCEPT !.originalPrice = 50, !.sellingPrice = calculateMarkup(50)]

\* the fields of a quotation a status change has no business with
quoteIdentity(q) == <<q.id, q.number, q.customer, q.items, q.subtotal>>

\* C22: quotation status is unconstrained: with a quotation open in the
\* editor, whatever its status, each of the four statuses can be selected and
\* the draft committed (no terminal state, Rejected can return to Draft); the
\* commit stores the selected status and leaves the quotation's items,
\* subtotal, customer, number and id as they were stored.
C22_StatusUnconstrained ==
    /\ [](editingQuote # NULL =>
            /\ \A t \in QuoteStatuses :
                  ENABLED (editStatus(t) /\ Val(editingQuote').status = t)
            /\ ~quotaExceeded => ENABLED quoteCommitted)
    /\ [][quoteCommitted =>
            /\ committedQuotes # {}
            /\ \A q \in committedQuotes :
                  /\ q.status = Val(editingQuote).status
                  /\ \A old \in Range(storedQuotes) :
                        old.id = q.id => quoteIdentity(q) = quoteIdentity(old)]_vars

\* a quotation stored as Rejected is open in the editor with Draft selected
\* and the commit can go through
C22_Witness ==
    /\ ~quotaExceeded
    /\ editingQuote # NULL
    /\ Val(editingQuote).status = "Draft"
    /\ \E q \in Range(storedQuotes) : q.id = Val(editingQuote).id /\ q.status = "Rejected"

\* the images of the open draft, before and after a step
draftImages == Val(editingProduct).images
draftImagesAfter == Val(editingProduct').images

\* C23: setPrimary(images, k) for every valid k > 0 gives a sequence of the
\* same length whose first element is the old element at k, with all other
\* elements in their old relative order; no image is lost or duplicated.
\* (Positions are counted from 1 here, so k > 0 is idx >= 2.)
C23_SetPrimaryMovesToFront ==
    [][\A idx \in 2..MaxGalleryUrls :
          handleSetPrimary(idx) =>
              /\ Len(draftImagesAfter) = Len(draftImages)
              /\ draftImagesAfter[1] = draftImages[idx]
              /\ \A i \in 1..(idx - 1) : draftImagesAfter[i + 1] = draftImages[i]
              /\ \A i \in (idx + 1)..Len(draftImages) : draftImagesAfter[i] = draftImages[i]
              /\ \A img \in Range(draftImages) :
                    Cardinality({i \in 1..Len(draftImagesAfter) : draftImagesAfter[i] = img})
                        = Cardinality({i \in 1..Len(draftImages) : draftImages[i] = img})]_vars

\* the third image entered is now the thumbnail, the two before it in their order
C23_Witness ==
    /\ editingProduct # NULL
    /\ draftImages = <<"https://cdn.example/c.jpg", "https://cdn.example/a.jpg",
                       "https://cdn.example/b.jpg">>

\* C25: adding an image by URL leaves the draft's images unchanged when the
\* trimmed input is empty or does not start with "http"; a URL already in
\* the list is not added again, so repeating an add gives the same list as
\* adding once, the URL appended at the end.
C25_AddImageByUrl ==
    [][\A input \in GalleryUrlInputs :
          handleAddImageUrl(input) =>
              LET trimmed == trimEnd(trimStart(input))
                  isHttp == Len(trimmed) >= 4 /\ SubSeq(trimmed, 1, 4) = <<"h", "t", "t", "p">>
                  known == \E i \in 1..Len(draftImages) : Chars(draftImages[i]) = trimmed
              IN  /\ (trimmed = <<>> \/ ~isHttp \/ known) => draftImagesAfter = draftImages
                  /\ (isHttp /\ ~known) =>
                        /\ Len(draftImagesAfter) = Len(draftImages) + 1
                        /\ SubSeq(draftImagesAfter, 1, Len(draftImages)) = draftImages
                        /\ Chars(draftImagesAfter[Len(draftImagesAfter)]) = trimmed
                  /\ imagesWithUrl(draftImagesAfter, trim(input)) = draftImagesAfter]_vars

\* two URLs were added, one of them typed with blanks around it, each once
C25_Witness ==
    /\ editingProduct # NULL
    /\ draftImages = <<"https://cdn.example/b.jpg", "https://cdn.example/a.jpg">>

\* a file the claim lets through: an image, within the size limit, that decodes
validFile(f) == f.isImage /\ ~f.oversized /\ f.readable

\* C24: in a multi-file upload a file that is oversized, not an image, or
\* fails to decode is rejected individually and does not abort the batch:
\* when the upload settles on the draft it was started from, the draft's
\* images are the old ones followed by the data of exactly the valid files.
C24_InvalidFileRejectedAlone ==
    [][(/\ editorAsync.upload # NULL
        /\ editorAsync'.upload = NULL
        /\ editingProduct = Some(Val(editorAsync.upload).draft))
       => /\ editingProduct' # NULL
          /\ draftImagesAfter =
                 draftImages \o dataUrls(SelectSeq(Val(editorAsync.upload).files, validFile))]_vars

\* C30: the result of an asynchronous editor call (file decode, AI
\* description, AI image) is applied only to the draft of the product it was
\* requested for: when the call settles while the editor is closed or shows
\* another product, the editor state is left as it is.
C30_LateResultDropped ==
    [][\A kind \in {"upload", "enhance", "image"} :
          (/\ editorAsync[kind] # NULL
           /\ editorAsync'[kind] = NULL
           /\ \/ editingProduct = NULL
              \/ Val(editingProduct).id # Val(editorAsync[kind]).draft.id)
          => editingProduct' = editingProduct]_vars

\* a response the claim calls malformed or absent: a failed request or
\* unparseable text, a value that is not an array, an empty answer, or only
\* suggestions with a category outside the enumeration or an unknown id
malformedResponse(resp) ==
    \/ resp.kind # "array"
    \/ \A i \in 1..Len(resp.items) :
          \/ resp.items[i].suggestedCategory \notin ProductCategory
          \/ resp.items[i].id \notin Ids(storedProducts)

\* C26: a malformed or absent AI categorisation response is treated as "no
\* change": no persisted product field changes and no exception escapes the
\* handler.
C26_MalformedAiResponseIsNoChange ==
    [][\A resp \in AiResponses :
          (malformedResponse(resp) /\ aiCategorizeSettle(resp)) =>
              /\ getAll(lsProducts') = storedProducts
              /\ thrown' = "none"]_vars

\* C27: deliveryFee and discount are non-negative: after any sequence of
\* quote edits and commits, every persisted quotation has deliveryFee >= 0
\* and discount >= 0.
C27_AdjustmentsNonNegative ==
    \A q \in Range(getAll(lsQuotations)) : q.deliveryFee >= 0 /\ q.discount >= 0

\* where the product of that id stands in a list
indexOfId(ps, id) == CHOOSE i \in 1..Len(ps) : ps[i].id = id

\* C28: the rows generateCatalogPDF builds are exactly the products of its
\* input with isActive true, ordered by the selected sort key (name by
\* default, category, price ascending, price descending, or code) with ties
\* kept in input order, and the caller's product sequence is not reordered.
C28_ExportRowsSortedActive ==
    [][handleDownloadCatalog =>
          LET rows == pdfRows'
              key == catalogOptions.sortBy
          IN  /\ Range(rows) = {p \in Range(products) : p.isActive}
              /\ Len(rows) = Cardinality(Range(rows))
              /\ \A i, j \in 1..Len(rows) :
                    i < j =>
                        /\ compareProducts(key, rows[i], rows[j]) <= 0
                        /\ compareProducts(key, rows[i], rows[j]) = 0 =>
                              indexOfId(products, rows[i].id) < indexOfId(products, rows[j].id)
              /\ products' = products]_vars

\* sorted by code, three active products come out in another order than
\* they are stored in
C28_Witness ==
    /\ catalogOptions.sortBy = "code"
    /\ [i \in 1..Len(products) |-> products[i].id] = <<"n1", "n2", "n3">>
    /\ [i \in 1..Len(pdfRows) |-> pdfRows[i].id] = <<"n2", "n3", "n1">>

\* the ids of a list, in order
idsInOrder(ps) == [i \in 1..Len(ps) |-> ps[i].id]

\* C29: product ids stay unique: after any sequence of admin operations in
\* one tab no two persisted products share an id, because saving a draft
\* whose id is stored replaces that record in place and saving a draft with
\* an unknown id appends exactly one record (a save the storage quota
\* refuses writes nothing).
C29_ProductIdsUnique ==
    /\ [](\A i, j \in 1..Len(storedProducts) :
             storedProducts[i].id = storedProducts[j].id => i = j)
    /\ [][(handleSaveProduct /\ ~quotaExceeded) =>
             LET draft == Val(editingProduct)
                 after == getAll(lsProducts')
             IN  IF draft.id \in Ids(storedProducts)
                 THEN /\ idsInOrder(after) = idsInOrder(storedProducts)
                      /\ \A i \in 1..Len(after) :
                            after[i] = IF storedProducts[i].id = draft.id THEN draft
                                                                         ELSE storedProducts[i]
                 ELSE after = Append(storedProducts, draft)]_vars

\* a manual product was saved, and saved again with another price, next to
\* the seed
C29_Witness ==
    /\ idsInOrder(storedProducts) = <<"p2", "n1">>
    /\ storedProducts[2].originalPrice = 50
    /\ editingProduct = NULL

====
